---- MODULE Spec2Model ----
(***************************************************************************)
(* A model of jvnc: the incremental RFB frame parser (src/rfb.rs), the     *)
(* shared framebuffer (src/framebuffer.rs) and the per-connection session  *)
(* handler (src/main.rs).                                                  *)
(*                                                                         *)
(* Bytes are naturals in 0..255, byte strings are sequences of bytes.      *)
(* The specifications of the module:  SpecStream (read_stream driving     *)
(* Rfb) and SpecStreamFair (the same, polled until it ends), SpecRfb (the  *)
(* Rfb object called in any order), SpecFb (the framebuffer), SpecSession  *)
(* (process_socket) and SpecAcceptor (main).                               *)
(***************************************************************************)
EXTENDS Integers, Sequences, FiniteSets, TLC

VARIABLES
    \* ---- Rfb (src/rfb.rs) and its driver read_stream
    input,      \* bytes the client will still send on this connection
    fed,        \* bytes read_buf has appended to the buffer so far
    buf,        \* Rfb.buf
    eof,        \* Rfb.eof
    failed,     \* Rfb.failed
    state,      \* Rfb.state
    ret,        \* what the last call of Rfb::parse returned
    out,        \* the items the stream of read_stream has yielded
    pc,         \* position of read_stream
    \* ---- Framebuffer (src/framebuffer.rs)
    fbWidth,    \* Framebuffer.width
    fbHeight,   \* Framebuffer.height
    region,     \* the pixel words of Framebuffer.region, by cell index
    shadow,     \* per cell, the colour of the last put that addressed it
    fbOp,       \* the last framebuffer call and what it returned
    fbOps,      \* number of framebuffer calls made
    fbCopy,     \* the copy_all in progress: per cell, the words it may read
    \* ---- process_socket (src/main.rs)
    spc,        \* position of process_socket
    cin,        \* bytes the client has sent that process_socket has not read
    closed,     \* the client has closed its side of the connection
    sent,       \* bytes written to the client, pixel payloads excluded
    payloads,   \* the pixel payloads written: offset in sent, length, colour
    rcvd,       \* what process_socket has read from the client, item by item
    gw,         \* local gw
    gh,         \* local gh
    extsize,    \* local extsize
    colour,     \* local colour
    colourup,   \* local colourup
    sincedraw,  \* milliseconds from lastdraw to the last reading of the clock
    got,        \* bytes of the message being read that are already read
    wq,         \* the write calls of the current run that are not yet made
    nsends,     \* messages the client has begun to send
    unsent,     \* the piece of its message the client has yet to send
    \* ---- main (src/main.rs)
    apc,        \* position of main
    backlog,    \* connections made to the listener and not yet accepted
    accepted    \* number of connections accept has returned

rfbVars == <<input, fed, buf, eof, failed, state, ret, out, pc>>
fbVars == <<fbWidth, fbHeight, region, shadow, fbOp, fbOps, fbCopy>>
sessVars ==
    <<spc, cin, closed, sent, payloads, rcvd, gw, gh, extsize, colour, colourup,
      sincedraw, got, wq, nsends, unsent>>
accVars == <<apc, backlog, accepted>>
vars == <<rfbVars, fbVars, sessVars, accVars>>

----------------------------------------------------------------------------
(* Sequence helpers. *)

Drop(s, n) == SubSeq(s, n + 1, Len(s))

Take(s, n) == SubSeq(s, 1, n)

RECURSIVE Concat(_)
Concat(ss) == IF ss = <<>> THEN <<>> ELSE Head(ss) \o Concat(Tail(ss))

Contains(s, b) == \E i \in 1..Len(s) : s[i] = b

----------------------------------------------------------------------------
(* src/rfb.rs: peek_u16, peek_u32.  Offsets are 0-based as in the source;  *)
(* indexing past the end of a BytesMut panics.                             *)

PeekU16(b, offset) ==
    IF Len(b) < offset + 2
    THEN [k |-> "None", v |-> 0]
    ELSE [k |-> "Some", v |-> b[offset + 1] * 256 + b[offset + 2]]

PeekU32(b, offset) ==
    IF Len(b) < offset + 2
    THEN [k |-> "None", v |-> 0]
    ELSE IF Len(b) < offset + 4
    THEN [k |-> "Panic", v |-> 0]
    ELSE [k |-> "Some",
          v |-> b[offset + 1] * 16777216 + b[offset + 2] * 65536
                + b[offset + 3] * 256 + b[offset + 4]]

(* Buf::get_u16, get_u32, get_i32 on the first bytes of b (big-endian). *)
GetU16(b) == b[1] * 256 + b[2]

GetU32(b) == b[1] * 16777216 + b[2] * 65536 + b[3] * 256 + b[4]

GetI32(b) ==
    (IF b[1] >= 128 THEN b[1] - 256 ELSE b[1]) * 16777216
    + b[2] * 65536 + b[3] * 256 + b[4]

RECURSIVE GetI32s(_, _)
GetI32s(b, n) ==
    IF n = 0 THEN <<>> ELSE <<GetI32(b)>> \o GetI32s(Drop(b, 4), n - 1)

----------------------------------------------------------------------------
(* Results of Rfb::parse.  A result is Ok(Some(frame)), Ok(None), Err(msg) *)
(* or a panic; frames carry their fields in a tuple.                       *)

RetFrame(t, a) == [k |-> "Frame", t |-> t, a |-> a, msg |-> ""]

RetNone == [k |-> "None", t |-> "", a |-> <<>>, msg |-> ""]

RetErr(msg) == [k |-> "Err", t |-> "", a |-> <<>>, msg |-> msg]

RetPanic == [k |-> "Panic", t |-> "", a |-> <<>>, msg |-> ""]

RetIdle == [k |-> "Idle", t |-> "", a |-> <<>>, msg |-> ""]

Rfb(b, e, f, s) == [buf |-> b, eof |-> e, failed |-> f, state |-> s]

(* Rfb::new *)
RfbNew == Rfb(<<>>, FALSE, FALSE, "Version")

(* Rfb::fail that reports the error without recording it. *)
Fail_Forgetful(r, msg) ==
    IF r.failed
    THEN [rfb |-> r, ret |-> RetErr("earlier failure")]
    ELSE [rfb |-> r, ret |-> RetErr(msg)]

(* Rfb::fail *)
Fail(r, msg) ==
    IF r.failed
    THEN [rfb |-> r, ret |-> RetErr("earlier failure")]
    ELSE [rfb |-> [r EXCEPT !.failed = TRUE], ret |-> RetErr(msg)]

Emit(r, b, s, t, a) ==
    [rfb |-> [r EXCEPT !.buf = b, !.state = s], ret |-> RetFrame(t, a)]

NeedMore(r) == [rfb |-> r, ret |-> RetNone]

Panic(r) == [rfb |-> r, ret |-> RetPanic]

MaxHandshake == 100

NL == 10

(* Index of the first byte of b that ends the loop of State::Version: a    *)
(* byte >= 128 or the newline.                                             *)
VersionStop(b, i) ==
    CHOOSE j \in i..Len(b) :
        /\ b[j] >= 128 \/ b[j] = NL
        /\ \A k \in i..(j - 1) : b[k] < 128 /\ b[k] # NL

ParseVersion(r) ==
    IF ~Contains(r.buf, NL)
    THEN IF Len(r.buf) > MaxHandshake
         THEN Fail(r, "handshake too long")
         ELSE NeedMore(r)
    ELSE LET i == VersionStop(r.buf, 1)
         IN  IF r.buf[i] >= 128
             THEN Fail([r EXCEPT !.buf = Drop(r.buf, i)], "invalid handshake byte")
             ELSE Emit(r, Drop(r.buf, i), "SecuritySelection",
                       "ProtocolVersion", Take(r.buf, i - 1))

ParseSecuritySelection(r) ==
    LET sec == r.buf[1]
        r1 == [r EXCEPT !.buf = Drop(r.buf, 1)]
    IN  IF sec # 1
        THEN Fail(r1, "invalid security " \o ToString(sec))
        ELSE Emit(r1, r1.buf, "ClientInit", "SecuritySelection", <<>>)

(* ClientInit emitted with the state left at ClientInit. *)
ParseClientInit_Stay(r) ==
    Emit(r, Drop(r.buf, 1), "ClientInit", "ClientInit",
         <<IF r.buf[1] = 0 THEN 0 ELSE 1>>)

ParseClientInit(r) ==
    Emit(r, Drop(r.buf, 1), "Message", "ClientInit",
         <<IF r.buf[1] = 0 THEN 0 ELSE 1>>)

ParseSetPixelFormat(r) ==
    IF Len(r.buf) < 1 + 3 + 16
    THEN NeedMore(r)
    ELSE Emit(r, Drop(r.buf, 1 + 3 + 16), "Message", "SetPixelFormat", <<>>)

(* SetEncodings that consumes the 4-byte header before the list is complete. *)
ParseSetEncodings_Eager(r) ==
    LET p == PeekU16(r.buf, 2)
    IN  IF p.k = "None" THEN NeedMore(r)
        ELSE IF Len(r.buf) < 4 + p.v * 4
        THEN NeedMore([r EXCEPT !.buf = Drop(r.buf, 4)])
        ELSE Emit(r, Drop(r.buf, 4 + p.v * 4), "Message", "SetEncodings",
                  GetI32s(Drop(r.buf, 4), p.v))

ParseSetEncodings(r) ==
    LET p == PeekU16(r.buf, 2)
    IN  IF p.k = "None" THEN NeedMore(r)
        ELSE IF Len(r.buf) < 4 + p.v * 4 THEN NeedMore(r)
        ELSE Emit(r, Drop(r.buf, 4 + p.v * 4), "Message", "SetEncodings",
                  GetI32s(Drop(r.buf, 4), p.v))

ParseUpdateRequest(r) ==
    IF Len(r.buf) < 10
    THEN NeedMore(r)
    ELSE Emit(r, Drop(r.buf, 10), "Message", "FramebufferUpdateRequest",
              << IF r.buf[2] # 0 THEN 1 ELSE 0,
                 GetU16(Drop(r.buf, 2)), GetU16(Drop(r.buf, 4)),
                 GetU16(Drop(r.buf, 6)), GetU16(Drop(r.buf, 8)) >>)

ParseKeyEvent(r) ==
    IF Len(r.buf) < 1 + 1 + 2 + 4
    THEN NeedMore(r)
    ELSE Emit(r, Drop(r.buf, 8), "Message", "KeyEvent",
              <<r.buf[2], GetU32(Drop(r.buf, 4))>>)

(* PointerEvent taken for a message of 8 bytes. *)
ParsePointerEvent_Long(r) ==
    IF Len(r.buf) < 1 + 1 + 2 + 2
    THEN NeedMore(r)
    ELSE Emit(r, Drop(r.buf, 8), "Message", "PointerEvent",
              <<r.buf[2], GetU16(Drop(r.buf, 2)), GetU16(Drop(r.buf, 4))>>)

ParsePointerEvent(r) ==
    IF Len(r.buf) < 1 + 1 + 2 + 2
    THEN NeedMore(r)
    ELSE Emit(r, Drop(r.buf, 6), "Message", "PointerEvent",
              <<r.buf[2], GetU16(Drop(r.buf, 2)), GetU16(Drop(r.buf, 4))>>)

ParseClientCutText(r) ==
    LET p == PeekU32(r.buf, 1 + 3)
    IN  IF p.k = "None" THEN NeedMore(r)
        ELSE IF p.k = "Panic" THEN Panic(r)
        ELSE IF Len(r.buf) < 1 + 3 + 4 + p.v THEN NeedMore(r)
        ELSE Emit(r, Drop(r.buf, 1 + 3 + 4 + p.v), "Message", "ClientCutText", <<>>)

ParseMessage(r) ==
    CASE r.buf[1] = 0 -> ParseSetPixelFormat(r)
      [] r.buf[1] = 2 -> ParseSetEncodings(r)
      [] r.buf[1] = 3 -> ParseUpdateRequest(r)
      [] r.buf[1] = 4 -> ParseKeyEvent(r)
      [] r.buf[1] = 5 -> ParsePointerEvent(r)
      [] r.buf[1] = 6 -> ParseClientCutText(r)
      [] OTHER -> Fail(r, "invalid message " \o ToString(r.buf[1]))

(* An empty buffer taken for the end of the stream whether or not eof is set. *)
ParseEmpty_Hasty(r) == [rfb |-> r, ret |-> RetFrame("EOF", <<>>)]

ParseEmpty(r) ==
    IF r.eof
    THEN [rfb |-> r, ret |-> RetFrame("EOF", <<>>)]
    ELSE NeedMore(r)

(* Rfb::parse *)
Parse(r) ==
    IF r.failed THEN Fail(r, "")
    ELSE IF r.buf = <<>> THEN ParseEmpty(r)
    ELSE CASE r.state = "Version" -> ParseVersion(r)
           [] r.state = "SecuritySelection" -> ParseSecuritySelection(r)
           [] r.state = "ClientInit" -> ParseClientInit(r)
           [] r.state = "Message" -> ParseMessage(r)

----------------------------------------------------------------------------
(* Client byte streams offered to the parser. *)

MaxMsgs == 2

ClientVersion == <<82, 70, 66, 32, 48, 48, 51, 46, 48, 48, 56, 10>>

Handshake == ClientVersion \o <<1, 1>>

MsgSetPixelFormat ==
    <<0, 0, 0, 0, 32, 24, 0, 1, 0, 255, 0, 255, 0, 255, 16, 8, 0, 0, 0, 0>>

MsgSetEncodings0 == <<2, 0, 0, 0>>

MsgSetEncodings2 == <<2, 0, 0, 2, 255, 255, 254, 204, 0, 0, 0, 1>>

MsgUpdateRequest == <<3, 1, 0, 0, 0, 0, 2, 0, 1, 128>>

MsgKeyEvent == <<4, 1, 0, 0, 0, 0, 0, 113>>

MsgPointerEvent == <<5, 1, 0, 7, 1, 2>>

MsgCutText0 == <<6, 0, 0, 0, 0, 0, 0, 0>>

MsgCutText2 == <<6, 0, 0, 0, 0, 0, 0, 2, 104, 105>>

Msgs ==
    { MsgSetPixelFormat, MsgSetEncodings0, MsgSetEncodings2, MsgUpdateRequest,
      MsgKeyEvent, MsgPointerEvent, MsgCutText0, MsgCutText2 }

MsgSeqs(n) == UNION { [1..k -> Msgs] : k \in 0..n }

(* Version line, security byte 1, ClientInit byte, then complete messages  *)
(* with IDs 0, 2, 3, 4, 5, 6.                                              *)
ValidStreams == { Handshake \o Concat(ms) : ms \in MsgSeqs(MaxMsgs) }

Fill(n, b) == [i \in 1..n |-> b]

LongLine == Fill(MaxHandshake + 1, 65)

BadStreams ==
    { LongLine \o <<NL, 1, 1>> \o MsgKeyEvent,          \* 101 bytes, then newline
      Fill(MaxHandshake, 65) \o <<NL, 1, 0>>,           \* 100 bytes, then newline
      <<82, 70, 200, 66, NL, 1, 1>>,                    \* byte >= 128 in the version
      ClientVersion \o <<2, 1>> \o MsgKeyEvent,         \* security type 2
      Handshake \o <<7>> \o MsgKeyEvent,                \* unknown message 7
      Handshake \o MsgKeyEvent \o <<251, 0>> }          \* unknown message 251

Streams == ValidStreams \cup BadStreams

----------------------------------------------------------------------------
(* Rfb::ingest and the loop of read_stream. *)

TheRfb == Rfb(buf, eof, failed, state)

SetRfb(r) ==
    /\ buf' = r.buf
    /\ eof' = r.eof
    /\ failed' = r.failed
    /\ state' = r.state

(* Rfb::ingest when read_buf returns the next n > 0 bytes of the client. *)
IngestBytes(n) ==
    /\ ~eof
    /\ n \in 1..Len(input)
    /\ buf' = buf \o Take(input, n)
    /\ fed' = fed \o Take(input, n)
    /\ input' = Drop(input, n)
    /\ UNCHANGED <<eof, failed, state>>

(* Rfb::ingest when read_buf returns 0: the client has closed. *)
IngestZero ==
    /\ ~eof
    /\ input = <<>>
    /\ eof' = TRUE
    /\ UNCHANGED <<input, fed, buf, failed, state>>

(* Rfb::ingest once eof is set: returns without reading. *)
IngestAtEof ==
    /\ eof
    /\ UNCHANGED <<input, fed, buf, eof, failed, state>>

(* The client closes the connection without sending the rest. *)
ClientClose ==
    /\ pc \in {"ingest", "parse", "harness"}
    /\ input # <<>>
    /\ input' = <<>>
    /\ UNCHANGED <<fed, buf, eof, failed, state, ret, out, pc>>
    /\ UNCHANGED <<fbVars, sessVars, accVars>>

StreamIngest ==
    /\ pc = "ingest"
    /\ \/ \E n \in 1..Len(input) : IngestBytes(n)
       \/ IngestZero
       \/ IngestAtEof
    /\ pc' = "parse"
    /\ ret' = RetIdle
    /\ out' = out
    /\ UNCHANGED <<fbVars, sessVars, accVars>>

(* read_buf fails: the ? of read_stream yields the error and ends. *)
StreamIngestError ==
    /\ pc = "ingest"
    /\ ~eof
    /\ pc' = "error"
    /\ ret' = RetIdle
    /\ out' = Append(out, RetErr("io"))
    /\ UNCHANGED <<input, fed, buf, eof, failed, state>>
    /\ UNCHANGED <<fbVars, sessVars, accVars>>

(* Where read_stream goes after one call of parse. *)
AfterParse(r) ==
    CASE r.k = "Frame" /\ r.t = "EOF" -> [pc |-> "done", yield |-> <<>>]
      [] r.k = "Frame" /\ r.t # "EOF" -> [pc |-> "parse", yield |-> <<r>>]
      [] r.k = "None" -> [pc |-> "ingest", yield |-> <<>>]
      [] r.k = "Err" -> [pc |-> "error", yield |-> <<r>>]
      [] r.k = "Panic" -> [pc |-> "panic", yield |-> <<>>]

StreamParse ==
    /\ pc = "parse"
    /\ LET p == Parse(TheRfb)
           a == AfterParse(p.ret)
       IN  /\ SetRfb(p.rfb)
           /\ ret' = p.ret
           /\ out' = out \o a.yield
           /\ pc' = a.pc
    /\ UNCHANGED <<input, fed>>
    /\ UNCHANGED <<fbVars, sessVars, accVars>>

(* The framebuffer and the session, at rest. *)
FbIdle ==
    /\ fbWidth = 0
    /\ fbHeight = 0
    /\ region = <<>>
    /\ shadow = <<>>
    /\ fbOp = [op |-> "none", x |-> 0, y |-> 0, rgb |-> <<>>, ret |-> <<>>, panic |-> FALSE]
    /\ fbOps = 0
    /\ fbCopy = [active |-> FALSE, seen |-> <<>>]

SessIdle ==
    /\ spc = "idle"
    /\ cin = <<>>
    /\ closed = FALSE
    /\ sent = <<>>
    /\ payloads = <<>>
    /\ rcvd = <<>>
    /\ gw = 0
    /\ gh = 0
    /\ extsize = FALSE
    /\ colour = 0
    /\ colourup = TRUE
    /\ sincedraw = 0
    /\ got = <<>>
    /\ wq = <<>>
    /\ nsends = 0
    /\ unsent = <<>>

(* main, not running. *)
AccIdle ==
    /\ apc = "idle"
    /\ backlog = 0
    /\ accepted = 0

RfbInit(p) ==
    /\ input \in Streams
    /\ fed = <<>>
    /\ buf = RfbNew.buf
    /\ eof = RfbNew.eof
    /\ failed = RfbNew.failed
    /\ state = RfbNew.state
    /\ ret = RetIdle
    /\ out = <<>>
    /\ pc = p

InitStream == RfbInit("ingest") /\ FbIdle /\ SessIdle /\ AccIdle

NextStream ==
    \/ StreamIngest
    \/ StreamIngestError
    \/ StreamParse
    \/ ClientClose

SpecStream == InitStream /\ [][NextStream]_vars

----------------------------------------------------------------------------
(* The Rfb object alone: ingest and parse called in any order. *)

RfbIngest ==
    /\ pc = "harness"
    /\ ret.k # "Panic"
    /\ \/ \E n \in 1..Len(input) : IngestBytes(n)
       \/ IngestZero
    /\ ret' = RetIdle
    /\ UNCHANGED <<out, pc>>
    /\ UNCHANGED <<fbVars, sessVars, accVars>>

RfbParse ==
    /\ pc = "harness"
    /\ ret.k # "Panic"
    /\ LET p == Parse(TheRfb)
       IN  /\ SetRfb(p.rfb)
           /\ ret' = p.ret
           /\ out' = IF p.ret.k = "Frame" /\ p.ret.t # "EOF"
                     THEN Append(out, p.ret) ELSE out
    /\ UNCHANGED <<input, fed, pc>>
    /\ UNCHANGED <<fbVars, sessVars, accVars>>

InitRfb == RfbInit("harness") /\ FbIdle /\ SessIdle /\ AccIdle

NextRfb ==
    \/ RfbIngest
    \/ RfbParse
    \/ ClientClose

SpecRfb == InitRfb /\ [][NextRfb]_vars

----------------------------------------------------------------------------
(* Claims about the parser. *)

(* The items read_stream yields when all of s is in the buffer before the  *)
(* first call of parse, and parse is then called until it stops yielding.  *)
RECURSIVE Exhaust(_, _)
Exhaust(r, acc) ==
    LET p == Parse(r)
        a == AfterParse(p.ret)
    IN  IF a.pc = "parse"
        THEN Exhaust(p.rfb, acc \o a.yield)
        ELSE [out |-> acc \o a.yield, pc |-> a.pc]

OneChunk(s) == Exhaust(Rfb(s, FALSE, FALSE, "Version"), <<>>)

(* Number of bytes of s before its first newline. *)
RECURSIVE PreNewline(_)
PreNewline(s) ==
    IF s = <<>> \/ Head(s) = NL THEN 0 ELSE 1 + PreNewline(Tail(s))

HasFrame(o, t) == \E i \in 1..Len(o) : o[i].k = "Frame" /\ o[i].t = t

\* C1: for a valid client byte sequence, whatever the chunks it arrives in,
\* the parser is never aborted and, once all of it has been appended and
\* parsed, the frames yielded are those of the sequence appended as one chunk.
C1_ChunkIndependence ==
    (fed \o input) \in ValidStreams =>
        /\ pc # "panic"
        /\ (input = <<>> /\ pc = "ingest" /\ ~eof) => out = OneChunk(fed).out

\* C2: a call of parse that returns Ok(None) leaves the buffer, the state and
\* the eof and failed flags as they were.
C2_NonConsumption ==
    [][ret'.k = "None" =>
         /\ buf' = buf
         /\ state' = state
         /\ eof' = eof
         /\ failed' = failed]_vars

C2_Witness ==
    /\ ret.k = "None"
    /\ state = "Message"
    /\ Len(buf) >= 4
    /\ buf[1] = 2

\* C3: once parse has returned an error, failed stays set, every later call of
\* parse returns an error, and no frame is yielded any more.
C3_StickyFailure ==
    [][/\ ret'.k = "Err" => failed'
       /\ failed =>
            /\ failed'
            /\ ret'.k \in {"Err", "Idle"}
            /\ out' = out]_vars

C3_Witness ==
    /\ failed
    /\ ret.k = "Err"
    /\ ret.msg = "earlier failure"
    /\ state = "SecuritySelection"
    /\ buf # <<>>
    /\ buf[1] = 1

\* C4: when more than 100 bytes arrive before the first newline, no
\* ProtocolVersion frame is ever emitted and the parser fails.
C4_VersionLimit ==
    PreNewline(fed) > MaxHandshake =>
        /\ ~HasFrame(out, "ProtocolVersion")
        /\ pc \in {"parse", "error"}

\* C5 as stated: the stream yields an EOF frame as its last item.
C5_YieldsEof ==
    pc = "done" => out # <<>> /\ out[Len(out)].t = "EOF"

\* C5 as amended: EOF is marked when a read returns zero bytes; parse returns
\* the EOF frame only with eof marked and the buffer empty, and on it the
\* stream ends without yielding the EOF frame or any item after it, having
\* yielded every complete frame of the bytes read, in order.
C5_EndOfStream ==
    /\ [](pc = "done" =>
            /\ eof
            /\ buf = <<>>
            /\ ret = RetFrame("EOF", <<>>)
            /\ ~HasFrame(out, "EOF")
            /\ out = OneChunk(fed).out)
    /\ [][(~eof /\ eof') => (input = <<>> /\ fed' = fed /\ out' = out)]_vars
    /\ [][pc = "done" => (pc' = "done" /\ out' = out)]_vars

C5_Witness ==
    /\ pc = "done"
    /\ Len(out) >= 5
    /\ out[5].t = "ClientCutText"

----------------------------------------------------------------------------
(* src/framebuffer.rs.  region holds one 32-bit word per cell; the word of *)
(* cell n is region[n + 1].                                                *)

MaxDim == 2

MaxFbOps == 3

Colours == { <<0, 0, 0>>, <<255, 128, 1>>, <<18, 52, 86>> }

FbCall(op, x, y, rgb, r, p) ==
    [op |-> op, x |-> x, y |-> y, rgb |-> rgb, ret |-> r, panic |-> p]

(* The guard of put, with the bounds themselves let through. *)
PutOutOfBounds_Lax(w, h, x, y) == x > w \/ y > h

(* The guard of put. *)
PutOutOfBounds(w, h, x, y) == x >= w \/ y >= h

(* The guard of get. *)
GetOutOfBounds(w, h, x, y) == x >= w \/ y >= h

(* (red << 16) | (green << 8) | blue, with the channels exchanged. *)
Pack_Swapped(red, green, blue) == green * 65536 + red * 256 + blue

(* put: (red as u32) << 16 | (green as u32) << 8 | blue as u32 *)
Pack(red, green, blue) == red * 65536 + green * 256 + blue

(* get: ((pix >> 16) as u8, (pix >> 8) as u8, pix as u8) *)
Unpack(pix) == << (pix \div 65536) % 256, (pix \div 256) % 256, pix % 256 >>

(* (y * self.width + x) *)
Target(w, x, y) == y * w + x

(* A write that spills into the cell after the target. *)
WriteWord_Spill(mem, target, pix) ==
    [i \in DOMAIN mem |-> IF i \in {target + 1, target + 2} THEN pix ELSE mem[i]]

(* pixregion.offset(target).write_volatile(pix) *)
WriteWord(mem, target, pix) ==
    [i \in DOMAIN mem |-> IF i = target + 1 THEN pix ELSE mem[i]]

(* No copy_all is running. *)
NoCopy == [active |-> FALSE, seen |-> <<>>]

(* What a running copy_all may read once the word pix has been stored in   *)
(* the cell at target: slice.to_vec() reads the region without             *)
(* synchronisation while put stores into it, so each cell it returns is    *)
(* any of the words the cell has held since the copy began.                *)
Seen(c, target, pix) ==
    IF c.active
    THEN [c EXCEPT !.seen = [i \in DOMAIN c.seen |->
                                IF i = target + 1 THEN c.seen[i] \cup {pix}
                                ELSE c.seen[i]]]
    ELSE c

(* Framebuffer::new: width * height zeroed cells. *)
FbNew(w, h) ==
    /\ fbWidth = w
    /\ fbHeight = h
    /\ region = [i \in 1..(w * h) |-> 0]
    /\ shadow = [i \in 1..(w * h) |-> <<0, 0, 0>>]
    /\ fbOp = FbCall("new", 0, 0, <<>>, <<>>, FALSE)
    /\ fbOps = 0
    /\ fbCopy = NoCopy

(* The holders of the Framebuffer go on calling it: a panic of get unwinds *)
(* the thread that called it and leaves the Framebuffer to the others.     *)
FbLive == fbOps < MaxFbOps

(* Framebuffer::put *)
FbPut(x, y, rgb) ==
    /\ FbLive
    /\ IF PutOutOfBounds(fbWidth, fbHeight, x, y)
       THEN UNCHANGED <<region, shadow, fbCopy>>
       ELSE /\ region' = WriteWord(region, Target(fbWidth, x, y),
                                   Pack(rgb[1], rgb[2], rgb[3]))
            /\ shadow' = WriteWord(shadow, Target(fbWidth, x, y), rgb)
            /\ fbCopy' = Seen(fbCopy, Target(fbWidth, x, y),
                              Pack(rgb[1], rgb[2], rgb[3]))
    /\ fbOp' = FbCall("put", x, y, rgb, <<>>, FALSE)
    /\ fbOps' = fbOps + 1
    /\ UNCHANGED <<fbWidth, fbHeight>>
    /\ UNCHANGED <<rfbVars, sessVars, accVars>>

(* Framebuffer::get *)
FbGet(x, y) ==
    /\ FbLive
    /\ fbOp' = IF GetOutOfBounds(fbWidth, fbHeight, x, y)
               THEN FbCall("get", x, y, <<>>, <<>>, TRUE)
               ELSE FbCall("get", x, y, <<>>,
                           Unpack(region[Target(fbWidth, x, y) + 1]), FALSE)
    /\ fbOps' = fbOps + 1
    /\ UNCHANGED <<fbWidth, fbHeight, region, shadow, fbCopy>>
    /\ UNCHANGED <<rfbVars, sessVars, accVars>>

(* The bytes of one cell in memory, least significant first. *)
WordBytes(pix) ==
    << pix % 256, (pix \div 256) % 256, (pix \div 65536) % 256, pix \div 16777216 >>

(* Framebuffer::copy_all is called: the copy of the region begins. *)
FbCopyAll ==
    /\ FbLive
    /\ ~fbCopy.active
    /\ fbCopy' = [active |-> TRUE,
                  seen |-> [i \in 1..Len(region) |-> {region[i]}]]
    /\ fbOp' = FbCall("copy_all", 0, 0, <<>>, <<>>, FALSE)
    /\ fbOps' = fbOps + 1
    /\ UNCHANGED <<fbWidth, fbHeight, region, shadow>>
    /\ UNCHANGED <<rfbVars, sessVars, accVars>>

(* Framebuffer::copy_all returns: 4 bytes per cell, each cell one of the   *)
(* words it has held while the copy ran.                                   *)
FbCopyAllReturn ==
    /\ fbCopy.active
    /\ \E snap \in [DOMAIN fbCopy.seen -> UNION {fbCopy.seen[i] : i \in DOMAIN fbCopy.seen}] :
          /\ \A i \in DOMAIN snap : snap[i] \in fbCopy.seen[i]
          /\ fbOp' = FbCall("copy_all", 0, 0, <<>>,
                            Concat([i \in 1..Len(region) |-> WordBytes(snap[i])]),
                            FALSE)
    /\ fbCopy' = NoCopy
    /\ UNCHANGED <<fbWidth, fbHeight, region, shadow, fbOps>>
    /\ UNCHANGED <<rfbVars, sessVars, accVars>>

(* Framebuffer::width, Framebuffer::height *)
FbDims ==
    /\ FbLive
    /\ fbOp' = FbCall("dims", 0, 0, <<>>, <<fbWidth, fbHeight>>, FALSE)
    /\ fbOps' = fbOps + 1
    /\ UNCHANGED <<fbWidth, fbHeight, region, shadow, fbCopy>>
    /\ UNCHANGED <<rfbVars, sessVars, accVars>>

RfbIdle ==
    /\ input = <<>>
    /\ fed = <<>>
    /\ buf = <<>>
    /\ eof = FALSE
    /\ failed = FALSE
    /\ state = "Version"
    /\ ret = RetIdle
    /\ out = <<>>
    /\ pc = "idle"

InitFb ==
    /\ \E w \in 1..MaxDim, h \in 1..MaxDim : FbNew(w, h)
    /\ RfbIdle
    /\ SessIdle
    /\ AccIdle

NextFb ==
    \/ \E x \in 0..MaxDim, y \in 0..MaxDim, rgb \in Colours : FbPut(x, y, rgb)
    \/ \E x \in 0..MaxDim, y \in 0..MaxDim : FbGet(x, y)
    \/ FbCopyAll
    \/ FbCopyAllReturn
    \/ FbDims

SpecFb == InitFb /\ [][NextFb]_vars

\* C6: a get of an in-bounds cell returns the colour of the last put to that
\* cell.
C6_PutGetRoundTrip ==
    (fbOp.op = "get" /\ ~fbOp.panic) =>
        fbOp.ret = shadow[Target(fbWidth, fbOp.x, fbOp.y) + 1]

C6_Witness ==
    /\ fbOp.op = "get"
    /\ fbOp.ret = <<255, 128, 1>>
    /\ fbOp.x = 1
    /\ fbOp.y = 1

\* C7: a put with x >= W or y >= H returns normally and changes no pixel and
\* no dimension.
C7_OutOfBoundsPut ==
    [][(fbOp'.op = "put" /\ fbOps' = fbOps + 1
        /\ (fbOp'.x >= fbWidth \/ fbOp'.y >= fbHeight)) =>
         /\ region' = region
         /\ fbWidth' = fbWidth
         /\ fbHeight' = fbHeight
         /\ ~fbOp'.panic]_vars

C7_Witness ==
    /\ fbOp.op = "put"
    /\ fbOp.x = fbWidth
    /\ fbOp.y < fbHeight
    /\ fbOp.rgb = <<255, 128, 1>>
    /\ \E i \in 1..Len(region) : region[i] # 0

----------------------------------------------------------------------------
(* src/main.rs: process_socket.  The client sends byte strings; a read of  *)
(* process_socket takes the bytes that have arrived and waits for the      *)
(* rest, and every write call may fail.  The pixel payload of an update    *)
(* (4 * gw * gh bytes) is kept as one record of payloads, not as bytes.    *)

(* Messages the client sends in one connection. *)
MaxSends == 5

(* Unread bytes at which the client holds back the next piece. *)
MaxUnread == 2

(* Pixel bytes up to which every cut of write_all(&screenbuf) is followed. *)
MaxPart == 24

sessLocals == <<gw, gh, extsize, colour, colourup, sincedraw>>

Min(a, b) == IF a < b THEN a ELSE b

(* write_u16, write_u32, write_i32: big-endian. *)
U16BE(v) == << (v \div 256) % 256, v % 256 >>

U32BE(v) ==
    << (v \div 16777216) % 256, (v \div 65536) % 256, (v \div 256) % 256, v % 256 >>

I32BE(v) ==
    << (v \div 16777216) % 256, (v \div 65536) % 256, (v \div 256) % 256, v % 256 >>

(* b"RFB 003.008\n" *)
Hs == <<82, 70, 66, 32, 48, 48, 51, 46, 48, 48, 56, 10>>

(* trim_end_matches('\n') *)
RECURSIVE TrimEndNl(_)
TrimEndNl(s) ==
    IF s # <<>> /\ s[Len(s)] = NL THEN TrimEndNl(Take(s, Len(s) - 1)) ELSE s

(* read_handshake on the bytes s, i of them already pushed: ok with the    *)
(* trimmed line, bad on a byte >= 128, more when s ends before a newline;  *)
(* n is the number of bytes read.                                          *)
RECURSIVE ReadHandshake(_, _)
ReadHandshake(s, i) ==
    IF Len(s) <= i THEN [k |-> "more", n |-> i, hs |-> <<>>]
    ELSE IF s[i + 1] >= 128 THEN [k |-> "bad", n |-> i + 1, hs |-> <<>>]
    ELSE IF s[i + 1] = NL
    THEN [k |-> "ok", n |-> i + 1, hs |-> TrimEndNl(Take(s, i + 1))]
    ELSE ReadHandshake(s, i + 1)

(* The version test, passing any 3.x version. *)
VersionOk_AnyMinor(chs) == Len(chs) >= 7 /\ Take(chs, 7) = Take(Hs, 7)

(* chs != "RFB 003.008" *)
VersionOk(chs) == chs = <<82, 70, 66, 32, 48, 48, 51, 46, 48, 48, 56>>

(* The write calls of the security handshake, the result written along.    *)
SecurityOffer_WithResult == << <<1>>, <<1>>, U32BE(0) >>

(* The write calls of the security handshake: 1 type, type None. *)
SecurityOffer == << <<1>>, <<1>> >>

(* The write calls of SecurityResult. *)
SecurityResult == << U32BE(0) >>

(* The write calls of ServerInit. *)
ServerInit(w, h) ==
    << U16BE(w), U16BE(h),
       <<32>>, <<24>>, <<0>>, <<1>>, U16BE(255), U16BE(255), U16BE(255),
       <<16>>, <<8>>, <<0>>, <<0>>, <<0>>, <<0>>,
       U32BE(4), <<106, 118, 110, 99>> >>

(* The write calls of an ExtendedDesktopSize rectangle after the message   *)
(* type and padding.                                                       *)
ExtendedDesktopSize(xpos, w, h) ==
    << U16BE(1), U16BE(xpos), U16BE(0), U16BE(w), U16BE(h), I32BE(-308),
       <<1>>, <<0>>, <<0>>, <<0>>,
       U32BE(0), U16BE(0), U16BE(0), U16BE(w), U16BE(h), U32BE(0) >>

(* The write calls of a Raw rectangle header after the message type and    *)
(* padding.                                                                *)
RawHeader(w, h) ==
    << U16BE(1), U16BE(0), U16BE(0), U16BE(w), U16BE(h), I32BE(0) >>

UpdateHead == << <<0>>, <<0>> >>

(* n turns of the colour animation loop. *)
RECURSIVE ColourLoop(_, _, _)
ColourLoop(n, c, up) ==
    IF n = 0 THEN [colour |-> c, colourup |-> up]
    ELSE IF up
    THEN ColourLoop(n - 1, c + 1, IF c + 1 > 240 THEN FALSE ELSE up)
    ELSE ColourLoop(n - 1, c - 1, IF c - 1 < 10 THEN TRUE ELSE up)

(* The same loop run 50 turns at a time, which keeps its evaluation shallow. *)
RECURSIVE StepColour(_, _, _)
StepColour(n, c, up) ==
    IF n <= 50 THEN ColourLoop(n, c, up)
    ELSE LET r == ColourLoop(50, c, up)
         IN  StepColour(n - 50, r.colour, r.colourup)

(* The colour animation after a draw: delta / 4 turns when delta > 4. *)
AfterDraw(delta, c, up) ==
    IF delta > 4 THEN StepColour(delta \div 4, c, up)
    ELSE [colour |-> c, colourup |-> up]

(* Milliseconds by which the clock of when() moves between one reading    *)
(* and the next; a negative step is the system clock set back.            *)
ClockSteps == {-1, 0, 3, 12, 50, 2100}

(* Bytes the message at the head of s takes, as far as s tells. *)
MsgNeed(s) ==
    CASE s[1] = 0 -> 1 + 3 + 16
      [] s[1] = 2 -> IF Len(s) < 4 THEN 4 ELSE 4 + 4 * GetU16(Drop(s, 2))
      [] s[1] = 3 -> 10
      [] s[1] = 4 -> 8
      [] s[1] = 5 -> 6
      [] s[1] = 6 -> IF Len(s) < 8 THEN 8 ELSE 8 + GetU32(Drop(s, 4))
      [] s[1] = 251 -> IF Len(s) < 8 THEN 8 ELSE 8 + 16 * s[7]
      [] OTHER -> 1

----------------------------------------------------------------------------
(* What the client sends. *)

MsgUpdateFull == <<3, 0, 0, 1, 0, 2, 0, 3, 0, 4>>

MsgResize == <<251, 0, 0, 2, 0, 3, 1, 0>> \o Fill(16, 0)

MsgResizeBig == <<251, 0, 39, 16, 0, 1, 0, 0>>

SessMsgs ==
    { MsgSetPixelFormat, MsgSetEncodings2, MsgUpdateRequest, MsgUpdateFull,
      MsgKeyEvent, MsgPointerEvent, MsgCutText2, MsgResize, MsgResizeBig, <<7>> }

VersionLines ==
    { ClientVersion,
      <<82, 70, 66, 32, 48, 48, 51, 46, 48, 48, 55, 10>>,       \* RFB 003.007
      <<82, 70, 66, 32, 48, 48, 51, 46, 48, 48, 56, 13, 10>>,   \* ... CR LF
      <<82, 70, 66, 32, 48, 48, 51, 46, 48, 48, 56, 57, 10>>,   \* RFB 003.0089
      <<82, 70, 200, 10>>,
      <<NL>>,
      Handshake }

(* What the client sends as its n-th message: a version line, a security   *)
(* selection, the shared flag of ClientInit, then messages.                *)
Script(n) ==
    CASE n = 0 -> VersionLines
      [] n = 1 -> { <<0>>, <<1>>, <<2>> }
      [] n = 2 -> { <<0>>, <<1>> }
      [] OTHER -> SessMsgs

(* The lengths of the first piece when a message leaves in two pieces:     *)
(* its first byte, and for SetEncodings also up to its first encoding.     *)
Cuts(m) ==
    ({1} \cup (IF m[1] = 2 THEN {8} ELSE {})) \cap (1..(Len(m) - 1))

(* The client writes its next message to the socket, whole or its first    *)
(* piece, whatever process_socket is doing; the bytes queue up behind      *)
(* those not yet read.                                                     *)
ClientSend ==
    /\ spc \notin {"idle", "error", "panic", "spin"}
    /\ ~closed
    /\ unsent = <<>>
    /\ Len(cin) < MaxUnread
    /\ nsends < MaxSends
    /\ \E m \in Script(nsends) :
          \E n \in Cuts(m) \cup {Len(m)} :
              /\ cin' = cin \o Take(m, n)
              /\ unsent' = Drop(m, n)
    /\ nsends' = nsends + 1
    /\ UNCHANGED <<spc, closed, sent, payloads, rcvd, got, wq, sessLocals>>
    /\ UNCHANGED <<rfbVars, fbVars, accVars>>

(* The client writes the second piece of its message. *)
ClientSendRest ==
    /\ spc \notin {"idle", "error", "panic", "spin"}
    /\ ~closed
    /\ unsent # <<>>
    /\ Len(cin) < MaxUnread
    /\ cin' = cin \o unsent
    /\ unsent' = <<>>
    /\ UNCHANGED <<spc, closed, nsends, sent, payloads, rcvd, got, wq, sessLocals>>
    /\ UNCHANGED <<rfbVars, fbVars, accVars>>

(* The client closes the connection, also in the middle of a message. *)
ClientShut ==
    /\ spc \notin {"idle", "error", "panic", "spin"}
    /\ ~closed
    /\ closed' = TRUE
    /\ UNCHANGED <<spc, cin, nsends, unsent, sent, payloads, rcvd, got, wq, sessLocals>>
    /\ UNCHANGED <<rfbVars, fbVars, accVars>>

----------------------------------------------------------------------------
(* The steps of process_socket.  Every write call and every read is an     *)
(* await: process_socket can be suspended there, with the calls before it  *)
(* done and the ones after it not yet made.                                *)

InitialWidth == 1024

InitialHeight == 768

(* The write call at the head of wq is polled: the socket takes some or    *)
(* all of the bytes left of it, and process_socket goes on at okpc after   *)
(* the last byte of the last call of the run; or the write fails and       *)
(* process_socket returns the error, with the bytes taken before written.  *)
Write(okpc) ==
    /\ wq # <<>>
    /\ \/ \E n \in 1..Len(Head(wq)) :
             /\ sent' = sent \o Take(Head(wq), n)
             /\ wq' = IF n = Len(Head(wq)) THEN Tail(wq)
                      ELSE <<Drop(Head(wq), n)>> \o Tail(wq)
             /\ spc' = IF n = Len(Head(wq)) /\ Tail(wq) = <<>> THEN okpc ELSE spc
       \/ /\ sent' = sent
          /\ wq' = <<>>
          /\ spc' = "error"

(* w.write_all(hs) *)
SGreet ==
    /\ spc = "greet"
    /\ Write("version")
    /\ UNCHANGED <<cin, closed, nsends, unsent, payloads, rcvd, got, sessLocals>>
    /\ UNCHANGED <<rfbVars, fbVars, accVars>>

(* read_handshake, one read_u8 per byte, and the version test: the bytes   *)
(* that have arrived are taken; without a newline among them the read      *)
(* waits for more.                                                         *)
SReadVersion ==
    /\ spc = "version"
    /\ cin # <<>>
    /\ LET h == ReadHandshake(got \o cin, Len(got))
           line == Take(got \o cin, h.n)
       IN  /\ cin' = Drop(cin, h.n - Len(got))
           /\ IF h.k = "more"
              THEN /\ got' = line
                   /\ UNCHANGED <<spc, rcvd, wq>>
              ELSE /\ got' = <<>>
                   /\ rcvd' = Append(rcvd, line)
                   /\ IF h.k = "ok" /\ VersionOk(h.hs)
                      THEN /\ spc' = "offer"
                           /\ wq' = SecurityOffer
                      ELSE /\ spc' = "error"
                           /\ wq' = <<>>
    /\ UNCHANGED <<closed, nsends, unsent, sent, payloads, sessLocals>>
    /\ UNCHANGED <<rfbVars, fbVars, accVars>>

SOfferSecurity ==
    /\ spc = "offer"
    /\ Write("security")
    /\ UNCHANGED <<cin, closed, nsends, unsent, payloads, rcvd, got, sessLocals>>
    /\ UNCHANGED <<rfbVars, fbVars, accVars>>

(* read_u8 and the test b != 1 *)
SReadSecurity ==
    /\ spc = "security"
    /\ cin # <<>>
    /\ rcvd' = Append(rcvd, <<cin[1]>>)
    /\ cin' = Tail(cin)
    /\ IF cin[1] = 1
       THEN /\ spc' = "result"
            /\ wq' = SecurityResult
       ELSE /\ spc' = "error"
            /\ wq' = <<>>
    /\ UNCHANGED <<closed, nsends, unsent, sent, payloads, got, sessLocals>>
    /\ UNCHANGED <<rfbVars, fbVars, accVars>>

SSecurityResult ==
    /\ spc = "result"
    /\ Write("clientinit")
    /\ UNCHANGED <<cin, closed, nsends, unsent, payloads, rcvd, got, sessLocals>>
    /\ UNCHANGED <<rfbVars, fbVars, accVars>>

(* read_u8 of ClientInit, then the locals of the message loop; lastdraw is *)
(* the time of this moment.                                                *)
SReadClientInit ==
    /\ spc = "clientinit"
    /\ cin # <<>>
    /\ rcvd' = Append(rcvd, <<cin[1]>>)
    /\ cin' = Tail(cin)
    /\ gw' = InitialWidth
    /\ gh' = InitialHeight
    /\ extsize' = FALSE
    /\ colour' = 0
    /\ colourup' = TRUE
    /\ sincedraw' = 0
    /\ spc' = "serverinit"
    /\ wq' = ServerInit(InitialWidth, InitialHeight)
    /\ UNCHANGED <<closed, nsends, unsent, sent, payloads, got>>
    /\ UNCHANGED <<rfbVars, fbVars, accVars>>

SServerInit ==
    /\ spc = "serverinit"
    /\ Write("loop")
    /\ UNCHANGED <<cin, closed, nsends, unsent, payloads, rcvd, got, sessLocals>>
    /\ UNCHANGED <<rfbVars, fbVars, accVars>>

(* The reads of one message: from the bytes g already read and the bytes c *)
(* that have arrived, the bytes read when the reads have gone as far as c  *)
(* lets them, and what is left of c.                                       *)
RECURSIVE ReadMsg(_, _)
ReadMsg(g, c) ==
    IF c = <<>> THEN [got |-> g, cin |-> c]
    ELSE IF g = <<>> THEN ReadMsg(<<c[1]>>, Tail(c))
    ELSE IF Len(g) >= MsgNeed(g) THEN [got |-> g, cin |-> c]
    ELSE LET n == Min(MsgNeed(g) - Len(g), Len(c))
         IN  ReadMsg(g \o Take(c, n), Drop(c, n))

(* All the reads of the message g have returned. *)
Complete(g) == g # <<>> /\ Len(g) >= MsgNeed(g)

(* The message loop is reading the message with this ID and bytes are      *)
(* there to read.                                                          *)
Reading(id) ==
    /\ spc = "loop"
    /\ cin # <<>>
    /\ (got \o cin)[1] = id

(* The message as far as this step reads it. *)
TheMsg == ReadMsg(got, cin).got

(* The bytes this step reads leave the socket; a message read to its end   *)
(* is recorded.                                                            *)
Consume ==
    /\ cin' = ReadMsg(got, cin).cin
    /\ IF Complete(TheMsg)
       THEN /\ got' = <<>>
            /\ rcvd' = Append(rcvd, TheMsg)
       ELSE /\ got' = TheMsg
            /\ rcvd' = rcvd

(* A read meets the end of the stream: the client has closed and every     *)
(* byte it sent is read.                                                   *)
SReadEof ==
    /\ spc \in {"version", "security", "clientinit", "loop"}
    /\ closed
    /\ cin = <<>>
    /\ rcvd' = Append(rcvd, got)
    /\ got' = <<>>
    /\ spc' = "error"
    /\ UNCHANGED <<cin, closed, nsends, unsent, sent, payloads, wq, sessLocals>>
    /\ UNCHANGED <<rfbVars, fbVars, accVars>>

SSetPixelFormat ==
    /\ Reading(0)
    /\ Consume
    /\ UNCHANGED <<spc, closed, nsends, unsent, sent, payloads, wq, sessLocals>>
    /\ UNCHANGED <<rfbVars, fbVars, accVars>>

(* An encoding -308 is among the encodings of g that are read whole. *)
HasExtendedDesktopSize(g) ==
    /\ Len(g) >= 4
    /\ \E i \in 1..Min(GetU16(Drop(g, 2)), (Len(g) - 4) \div 4) :
          GetI32(Drop(g, 4 * i)) = -308

(* SetEncodings: extsize is set as each encoding is read. *)
SSetEncodings ==
    /\ Reading(2)
    /\ Consume
    /\ extsize' = IF HasExtendedDesktopSize(TheMsg) THEN TRUE ELSE extsize
    /\ UNCHANGED <<spc, closed, nsends, unsent, sent, payloads, wq>>
    /\ UNCHANGED <<gw, gh, colour, colourup, sincedraw>>
    /\ UNCHANGED <<rfbVars, fbVars, accVars>>

(* FramebufferUpdateRequest: once it is read the reply is written. *)
SUpdateRequest ==
    /\ Reading(3)
    /\ Consume
    /\ IF ~Complete(TheMsg)
       THEN UNCHANGED <<spc, wq>>
       ELSE IF extsize /\ TheMsg[2] = 0
       THEN /\ spc' = "extupdate"
            /\ wq' = UpdateHead \o ExtendedDesktopSize(0, gw, gh)
       ELSE /\ spc' = "update"
            /\ wq' = UpdateHead \o RawHeader(gw, gh)
    /\ UNCHANGED <<closed, nsends, unsent, sent, payloads, sessLocals>>
    /\ UNCHANGED <<rfbVars, fbVars, accVars>>

(* The write calls of the ExtendedDesktopSize reply to an update request. *)
SExtUpdate ==
    /\ spc = "extupdate"
    /\ Write("loop")
    /\ UNCHANGED <<cin, closed, nsends, unsent, payloads, rcvd, got, sessLocals>>
    /\ UNCHANGED <<rfbVars, fbVars, accVars>>

(* The write calls of the message head and the Raw rectangle header. *)
SUpdateHeader ==
    /\ spc = "update"
    /\ Write("pixels")
    /\ UNCHANGED <<cin, closed, nsends, unsent, payloads, rcvd, got, sessLocals>>
    /\ UNCHANGED <<rfbVars, fbVars, accVars>>

(* The colour animation after the pixel data is written: delta = now -     *)
(* lastdraw in u64, which overflows when the clock was set back: a panic,  *)
(* or a wrapped delta and a loop of some 2^62 turns.                       *)
Redraw ==
    \E step \in ClockSteps :
        LET delta == sincedraw + step
            a == AfterDraw(delta, colour, colourup)
        IN  IF delta < 0
            THEN /\ spc' \in {"panic", "spin"}
                 /\ UNCHANGED <<colour, colourup, sincedraw>>
            ELSE /\ colour' = a.colour
                 /\ colourup' = a.colourup
                 /\ sincedraw' = IF delta > 4 THEN 0 ELSE delta
                 /\ spc' = "loop"

(* The byte counts at which write_all(&screenbuf) can be found suspended   *)
(* with a part of the pixel data written: every count up to MaxPart, and   *)
(* one far into a large buffer.                                            *)
PayloadStops == (1..MaxPart) \cup {100000}

(* The pixel bytes written after one more poll of write_all, p of the      *)
(* total being written before it: poll_write takes at least one byte.      *)
Progress(total, p) == { q \in PayloadStops \cup {total} : p < q /\ q <= total }

(* w.write_all(&screenbuf), which makes no call for an empty buffer: the   *)
(* socket takes all of the pixel data, and the colour animation follows,   *)
(* or a part of it, or the write fails.                                    *)
SPixels ==
    /\ spc = "pixels"
    /\ \/ \E q \in Progress(4 * gh * gw, 0) \cup {4 * gh * gw} :
             /\ payloads' = Append(payloads,
                    [at |-> Len(sent), len |-> q, colour |-> colour])
             /\ IF q = 4 * gh * gw
                THEN Redraw
                ELSE /\ spc' = "pixelsrest"
                     /\ UNCHANGED <<colour, colourup, sincedraw>>
       \/ /\ 4 * gh * gw > 0
          /\ spc' = "error"
          /\ UNCHANGED <<payloads, colour, colourup, sincedraw>>
    /\ UNCHANGED <<cin, closed, nsends, unsent, sent, rcvd, got, wq, gw, gh, extsize>>
    /\ UNCHANGED <<rfbVars, fbVars, accVars>>

(* write_all(&screenbuf) polled again with a part of the pixel data        *)
(* written: the socket takes the rest or another part of it, or the write  *)
(* fails.                                                                  *)
SPixelsRest ==
    /\ spc = "pixelsrest"
    /\ \/ \E q \in Progress(4 * gh * gw, payloads[Len(payloads)].len) :
             /\ payloads' = [payloads EXCEPT ![Len(payloads)].len = q]
             /\ IF q = 4 * gh * gw
                THEN Redraw
                ELSE UNCHANGED <<spc, colour, colourup, sincedraw>>
       \/ /\ spc' = "error"
          /\ UNCHANGED <<payloads, colour, colourup, sincedraw>>
    /\ UNCHANGED <<cin, closed, nsends, unsent, sent, rcvd, got, wq, gw, gh, extsize>>
    /\ UNCHANGED <<rfbVars, fbVars, accVars>>

SKeyEvent ==
    /\ Reading(4)
    /\ Consume
    /\ UNCHANGED <<spc, closed, nsends, unsent, sent, payloads, wq, sessLocals>>
    /\ UNCHANGED <<rfbVars, fbVars, accVars>>

SPointerEvent ==
    /\ Reading(5)
    /\ Consume
    /\ UNCHANGED <<spc, closed, nsends, unsent, sent, payloads, wq, sessLocals>>
    /\ UNCHANGED <<rfbVars, fbVars, accVars>>

SClientCutText ==
    /\ Reading(6)
    /\ Consume
    /\ UNCHANGED <<spc, closed, nsends, unsent, sent, payloads, wq, sessLocals>>
    /\ UNCHANGED <<rfbVars, fbVars, accVars>>

(* SetDesktopSize: the size is tested once the screens are read. *)
SSetDesktopSize ==
    /\ Reading(251)
    /\ Consume
    /\ LET nw == GetU16(Drop(TheMsg, 2))
           nh == GetU16(Drop(TheMsg, 4))
       IN  IF ~Complete(TheMsg)
           THEN UNCHANGED <<spc, wq, gw, gh>>
           ELSE IF nw >= 10000 \/ nh >= 10000
           THEN /\ spc' = "error"
                /\ UNCHANGED <<wq, gw, gh>>
           ELSE /\ gw' = nw
                /\ gh' = nh
                /\ spc' = "resize"
                /\ wq' = UpdateHead \o ExtendedDesktopSize(1, nw, nh)
    /\ UNCHANGED <<closed, nsends, unsent, sent, payloads>>
    /\ UNCHANGED <<extsize, colour, colourup, sincedraw>>
    /\ UNCHANGED <<rfbVars, fbVars, accVars>>

(* The write calls of the reply to SetDesktopSize. *)
SResized ==
    /\ spc = "resize"
    /\ Write("loop")
    /\ UNCHANGED <<cin, closed, nsends, unsent, payloads, rcvd, got, sessLocals>>
    /\ UNCHANGED <<rfbVars, fbVars, accVars>>

(* bail!("unknown type {}", b) *)
SUnknownType ==
    /\ spc = "loop"
    /\ got = <<>>
    /\ cin # <<>>
    /\ cin[1] \notin {0, 2, 3, 4, 5, 6, 251}
    /\ rcvd' = Append(rcvd, <<cin[1]>>)
    /\ cin' = Tail(cin)
    /\ spc' = "error"
    /\ UNCHANGED <<closed, nsends, unsent, sent, payloads, got, wq, sessLocals>>
    /\ UNCHANGED <<rfbVars, fbVars, accVars>>

InitSession ==
    /\ spc = "greet"
    /\ cin = <<>>
    /\ closed = FALSE
    /\ nsends = 0
    /\ unsent = <<>>
    /\ sent = <<>>
    /\ payloads = <<>>
    /\ rcvd = <<>>
    /\ got = <<>>
    /\ wq = <<Hs>>
    /\ gw = 0
    /\ gh = 0
    /\ extsize = FALSE
    /\ colour = 0
    /\ colourup = TRUE
    /\ sincedraw = 0
    /\ RfbIdle
    /\ FbIdle
    /\ AccIdle

NextSession ==
    \/ ClientSend
    \/ ClientSendRest
    \/ ClientShut
    \/ SGreet
    \/ SReadVersion
    \/ SOfferSecurity
    \/ SReadSecurity
    \/ SSecurityResult
    \/ SReadClientInit
    \/ SServerInit
    \/ SReadEof
    \/ SSetPixelFormat
    \/ SSetEncodings
    \/ SUpdateRequest
    \/ SExtUpdate
    \/ SUpdateHeader
    \/ SPixels
    \/ SPixelsRest
    \/ SKeyEvent
    \/ SPointerEvent
    \/ SClientCutText
    \/ SSetDesktopSize
    \/ SResized
    \/ SUnknownType

SpecSession == InitSession /\ [][NextSession]_vars

----------------------------------------------------------------------------
(* Claims about the session. *)

(* The bytes of the server's handshake, in order: greeting, security       *)
(* offer, security result, ServerInit.                                     *)
ServerHandshakeBytes ==
    << 82, 70, 66, 32, 48, 48, 51, 46, 48, 48, 56, 10,
       1, 1,
       0, 0, 0, 0,
       4, 0, 3, 0, 32, 24, 0, 1, 0, 255, 0, 255, 0, 255, 16, 8, 0, 0, 0, 0,
       0, 0, 0, 4, 106, 118, 110, 99 >>

GreetingEnd == 12

OfferEnd == 14

ResultEnd == 18

\* C8: the bytes written are the greeting, the security offer, the security
\* result and ServerInit in this order; the offer is written only after the
\* client version has been read, the result only after the selection byte 1,
\* ServerInit only after the ClientInit byte, and nothing of an update
\* before ServerInit is complete.
C8_HandshakeOrder ==
    /\ IF Len(sent) <= Len(ServerHandshakeBytes)
       THEN sent = Take(ServerHandshakeBytes, Len(sent))
       ELSE Take(sent, Len(ServerHandshakeBytes)) = ServerHandshakeBytes
    /\ Len(sent) > GreetingEnd => Len(rcvd) >= 1
    /\ Len(sent) > OfferEnd => (Len(rcvd) >= 2 /\ rcvd[2] = <<1>>)
    /\ Len(sent) > ResultEnd => (Len(rcvd) >= 3 /\ Len(rcvd[3]) = 1)
    /\ \A i \in 1..Len(payloads) : payloads[i].at > Len(ServerHandshakeBytes)

C8_Witness ==
    /\ spc = "loop"
    /\ Len(rcvd) = 4
    /\ Len(payloads) = 1
    /\ Len(sent) = Len(ServerHandshakeBytes) + 16

\* C9: when the version line read is not exactly "RFB 003.008", or the
\* security selection is not the byte 1, or the stream ends during the
\* handshake, the session has terminated and has written nothing beyond
\* what precedes that read: no offer, no result, never ServerInit.
C9_HandshakeRejection ==
    /\ (Len(rcvd) >= 1 /\ rcvd[1] # ClientVersion) =>
            (spc = "error" /\ Len(sent) <= GreetingEnd)
    /\ (Len(rcvd) >= 2 /\ rcvd[2] # <<1>>) =>
            (spc = "error" /\ Len(sent) <= OfferEnd)
    /\ (Len(rcvd) >= 3 /\ rcvd[3] = <<>>) =>
            (spc = "error" /\ Len(sent) <= ResultEnd)

C9_Witness ==
    /\ spc = "error"
    /\ rcvd = << <<82, 70, 66, 32, 48, 48, 51, 46, 48, 48, 55, 10>> >>
    /\ sent = Hs

(* The step at hand reads to its end a message with this ID in the message *)
(* loop.                                                                   *)
Reads(id) ==
    /\ spc = "loop"
    /\ rcvd' = Append(rcvd, rcvd'[Len(rcvd')])
    /\ rcvd'[Len(rcvd')] # <<>>
    /\ rcvd'[Len(rcvd')][1] = id

\* C10: reading a FramebufferUpdateRequest sends nothing at once: the request
\* is only stored, and process_socket goes on reading with no write call to
\* make.
C10_Coalescing ==
    [][Reads(3) => (spc' = "loop" /\ wq' = <<>>)]_vars

(* The message process_socket is answering while it writes in the message  *)
(* phase: the last one read.                                               *)
Request == rcvd[Len(rcvd)]

(* The step at hand makes the last write call of the head of an update:    *)
(* message type, padding, number of rectangles and rectangle header.       *)
HeadWritten ==
    /\ spc \in {"update", "extupdate", "resize"}
    /\ spc' \in {"pixels", "loop"}

(* The head of the update that step has completed: 16 bytes before pixel   *)
(* data, 36 bytes with an ExtendedDesktopSize rectangle.                   *)
UpdateHeader == Drop(sent', Len(sent') - (IF spc = "update" THEN 16 ELSE 36))

\* C11: the rectangle header of the FramebufferUpdate that answers a request
\* is the request clamped against the dimensions (gw, gh) of the session:
\* xpos = min(xpos, gw - 1), ypos = min(ypos, gh - 1), width = min(width, gw),
\* height = min(height, gh).
C11_Clamping ==
    [][(HeadWritten /\ Request[1] = 3) =>
         /\ GetU16(Drop(UpdateHeader, 4)) = Min(GetU16(Drop(Request, 2)), gw - 1)
         /\ GetU16(Drop(UpdateHeader, 6)) = Min(GetU16(Drop(Request, 4)), gh - 1)
         /\ GetU16(Drop(UpdateHeader, 8)) = Min(GetU16(Drop(Request, 6)), gw)
         /\ GetU16(Drop(UpdateHeader, 10)) = Min(GetU16(Drop(Request, 8)), gh)]_vars

\* C12: reading the KeyEvent with down = 1 and keysym = 113 in the message
\* loop ends the session without an error, and once that KeyEvent has been
\* read nothing more is written to the client.
C12_QuitKey ==
    [][/\ (spc = "loop" /\ rcvd' = Append(rcvd, MsgKeyEvent)) =>
              spc' \notin {"loop", "error"}
       /\ (\E i \in 4..Len(rcvd) : rcvd[i] = MsgKeyEvent) => sent' = sent]_vars

\* C13: every FramebufferUpdate written in reply to a request carries one
\* rectangle and the encoding field of that rectangle is 0 (Raw), whatever
\* the encodings the client has advertised and whether or not the request is
\* incremental.
C13_RawOnly ==
    [][(HeadWritten /\ Request[1] = 3) =>
         /\ UpdateHeader[1] = 0
         /\ GetU16(Drop(UpdateHeader, 2)) = 1
         /\ GetI32(Drop(UpdateHeader, 12)) = 0]_vars

\* C16: a message whose first byte is none of 0, 2, 3, 4, 5, 6 ends the
\* session with an error: once it is read gw and gh are as they were and
\* process_socket has no write call to make.
C16_UnknownMessage ==
    [][(/\ spc = "loop"
        /\ cin # <<>>
        /\ (got \o cin)[1] \notin {0, 2, 3, 4, 5, 6}
        /\ rcvd' # rcvd) =>
         (spc' = "error" /\ wq' = <<>> /\ gw' = gw /\ gh' = gh)]_vars

\* C19: after ServerInit bytes are written to the client only in answer to
\* a FramebufferUpdateRequest: whenever a step writes, the message last read
\* is a FramebufferUpdateRequest.
C19_NoUnsolicitedUpdate ==
    [][(Len(rcvd) >= 4 /\ sent' # sent) => Request[1] = 3]_vars

----------------------------------------------------------------------------
(* main: the listener and the accept loop, with the session it awaits. *)

MaxConns == 2

(* A client connects to the listening socket. *)
Connect ==
    /\ apc \in {"accept", "session"}
    /\ accepted + backlog < MaxConns
    /\ backlog' = backlog + 1
    /\ UNCHANGED <<apc, accepted>>
    /\ UNCHANGED <<rfbVars, fbVars, sessVars>>

(* listener.accept() returns a connection and main calls process_socket on *)
(* it.                                                                     *)
Accept ==
    /\ apc = "accept"
    /\ backlog > 0
    /\ backlog' = backlog - 1
    /\ accepted' = accepted + 1
    /\ apc' = "session"
    /\ spc' = "greet"
    /\ cin' = <<>>
    /\ closed' = FALSE
    /\ sent' = <<>>
    /\ payloads' = <<>>
    /\ rcvd' = <<>>
    /\ got' = <<>>
    /\ wq' = <<Hs>>
    /\ nsends' = 0
    /\ unsent' = <<>>
    /\ UNCHANGED sessLocals
    /\ UNCHANGED <<rfbVars, fbVars>>

(* listener.accept() fails: the ? of main returns the error. *)
AcceptError ==
    /\ apc = "accept"
    /\ apc' = "exit"
    /\ UNCHANGED <<backlog, accepted>>
    /\ UNCHANGED <<rfbVars, fbVars, sessVars>>

(* process_socket(socket).await? when process_socket has returned an error: *)
(* main returns it; a panic of process_socket unwinds through main.        *)
(* process_socket has no other way to return, its message loop has no      *)
(* break.                                                                  *)
SessionFailed ==
    /\ apc = "session"
    /\ spc \in {"error", "panic"}
    /\ apc' = "exit"
    /\ UNCHANGED <<backlog, accepted>>
    /\ UNCHANGED <<rfbVars, fbVars, sessVars>>

InitAcceptor ==
    /\ apc = "accept"
    /\ backlog = 0
    /\ accepted = 0
    /\ SessIdle
    /\ RfbIdle
    /\ FbIdle

NextAcceptor ==
    \/ Connect
    \/ Accept
    \/ AcceptError
    \/ SessionFailed
    \/ NextSession

SpecAcceptor == InitAcceptor /\ [][NextAcceptor]_vars

\* C14: the end of a session in an error never stops the acceptor: main does
\* not return on it and goes back to accept.
C14_FailureIsolation ==
    [][(apc = "session" /\ spc = "error") => apc' # "exit"]_vars

\* C15: a connection waiting to be accepted finds main at accept, whatever
\* session is running: main never waits for a session while a connection
\* waits for main.
C15_NonBlockingAccept ==
    (backlog > 0 /\ apc # "exit") => apc = "accept"

----------------------------------------------------------------------------
(* More claims about the parser. *)

(* The frame a call of parse emits when it leaves each handshake state, and *)
(* the state it goes to.                                                   *)
Progression ==
    { <<"Version", "ProtocolVersion", "SecuritySelection">>,
      <<"SecuritySelection", "SecuritySelection", "ClientInit">>,
      <<"ClientInit", "ClientInit", "Message">> }

HandshakeFrames == {"ProtocolVersion", "SecuritySelection", "ClientInit"}

\* C17: the state changes only by one step of Version -> SecuritySelection ->
\* ClientInit -> Message, on the call of parse that emits the frame of the
\* state left, and every handshake frame emitted changes the state; so the
\* first three frames emitted are ProtocolVersion, SecuritySelection and
\* ClientInit and none of these kinds is emitted at any other position.
C17_StateProgression ==
    /\ [][/\ state' # state =>
                /\ out' = Append(out, ret')
                /\ <<state, ret'.t, state'>> \in Progression
          /\ (out' # out /\ out'[Len(out')].t \in HandshakeFrames) =>
                state' # state]_vars
    /\ [](\A i \in 1..Len(out) :
            /\ out[i].t = "ProtocolVersion" <=> i = 1
            /\ out[i].t = "SecuritySelection" <=> i = 2
            /\ out[i].t = "ClientInit" <=> i = 3)

C17_Witness ==
    /\ state = "Message"
    /\ Len(out) = 5
    /\ out[3].t = "ClientInit"
    /\ out[5].t = "KeyEvent"

(* The total length of the message a frame of type t was decoded from,     *)
(* given the buffer b it was at the head of.                               *)
FrameLen(t, b) ==
    CASE t = "SetPixelFormat" -> 20
      [] t = "SetEncodings" -> 4 + 4 * GetU16(Drop(b, 2))
      [] t = "FramebufferUpdateRequest" -> 10
      [] t = "KeyEvent" -> 8
      [] t = "PointerEvent" -> 6
      [] t = "ClientCutText" -> 8 + GetU32(Drop(b, 4))

\* C18: in the Message state a call of parse that emits a frame removes from
\* the head of the buffer exactly the length of that message (20 for
\* SetPixelFormat, 4 + 4 * nenc for SetEncodings, 10 for
\* FramebufferUpdateRequest, 8 for KeyEvent, 6 for PointerEvent, 8 + length
\* for ClientCutText) and leaves the rest as it was.
C18_MessageFraming ==
    [][(state = "Message" /\ out' # out) =>
         LET n == FrameLen(out'[Len(out')].t, buf)
         IN  /\ Len(buf) >= n
             /\ buf' = Drop(buf, n)]_vars

C18_Witness ==
    /\ state = "Message"
    /\ ret.k = "Frame"
    /\ ret.t = "ClientCutText"
    /\ out # <<>>
    /\ out[Len(out)] = ret
    /\ buf = MsgPointerEvent

(* read_stream polled until it ends: the call of ingest and the call of    *)
(* parse it is at are made.                                                *)
SpecStreamFair ==
    /\ InitStream
    /\ [][NextStream]_vars
    /\ WF_vars(StreamIngest)
    /\ WF_vars(StreamParse)

\* C20: once a read has returned zero bytes (eof is set), read_stream comes
\* to its end: it stops yielding and returns, whatever is left in the buffer.
C20_TerminationOnDisconnect ==
    eof ~> (pc \in {"done", "error", "panic"})

\* C21: no call of parse indexes the buffer past its end: parse never
\* panics, and with fewer than 8 bytes of a ClientCutText in the buffer
\* peek_u32(4) returns None and parse returns Ok(None).
C21_AccessesInRange ==
    /\ ret.k # "Panic"
    /\ (state = "Message" /\ ~failed /\ buf # <<>> /\ buf[1] = 6 /\ Len(buf) < 8) =>
            /\ PeekU32(buf, 4).k = "None"
            /\ Parse(TheRfb).ret = RetNone

----------------------------------------------------------------------------
(* More claims about the framebuffer. *)

(* What get(x, y) returns for in-bounds coordinates when the memory is mem. *)
Get(mem, x, y) == Unpack(mem[Target(fbWidth, x, y) + 1])

InBounds == (0..(fbWidth - 1)) \X (0..(fbHeight - 1))

\* C22: no call changes the width or the height; get, copy_all, width and
\* height change no cell; an in-bounds put(x, y) leaves what get returns at
\* every other in-bounds coordinate as it was.
C22_WriteFrame ==
    [][/\ fbWidth' = fbWidth
       /\ fbHeight' = fbHeight
       /\ fbOp'.op # "put" => region' = region
       /\ (fbOp'.op = "put" /\ fbOps' = fbOps + 1
           /\ <<fbOp'.x, fbOp'.y>> \in InBounds) =>
             \A c \in InBounds \ {<<fbOp'.x, fbOp'.y>>} :
                 Get(region', c[1], c[2]) = Get(region, c[1], c[2])]_vars

C22_Witness ==
    /\ fbWidth = 2
    /\ fbHeight = 2
    /\ fbOp.op = "put"
    /\ fbOp.x = 0
    /\ fbOp.y = 1
    /\ fbOp.rgb = <<18, 52, 86>>
    /\ Get(region, 1, 1) = <<255, 128, 1>>
    /\ Get(region, 0, 1) = <<18, 52, 86>>

----------------------------------------------------------------------------
(* More claims about the session. *)

====
